---- MODULE Spec2Model ----
(***************************************************************************)
(* Model of the futures order-lifecycle manager BinanceTrader              *)
(* (src/space_time_pipeline/trader/binance.py): create_order,              *)
(* close_all_positions, cancel_all_open_orders, update_dynamic_stop_loss   *)
(* and check_and_create_stop_loss, run against an exchange whose answers   *)
(* are nondeterministic.                                                   *)
(*                                                                         *)
(* Units.  Prices and quantities are integers in thousandths (0.001), so   *)
(* 100.150 is 100150.  Percents are integers in hundredths of a percent,   *)
(* so 1.5 % is 150 and the 0.5 % escalation step is 50.  Python floats are *)
(* modelled by exact rational arithmetic; round(x, 2) is round-half-even   *)
(* on the exact value.                                                     *)
(***************************************************************************)
EXTENDS Integers, Sequences, FiniteSets, TLC

\* ------------------------------------------------------------ bounds ----

\* The exchange accepts no further order once this many are open, and no
\* further stop order once this many stop orders are open.
MaxOpenOrders == 4
MaxStopOrders == 2
\* The calls of the order manager followed in one behaviour.
MaxCalls == 1

\* ------------------------------------------------- program constants ----

\* stop_loss_percent += 0.5
EscalationStep == 50
\* stop_loss_percent: int = 0.01
DefaultStartPercent == 1
\* max_stop_loss_percent: int = 15
DefaultCapPercent == 1500
\* leverage: int = 20
DefaultGuardLeverage == 20
\* usdt_balance = self.available_balance * 0.95
BalancePercent == 95

\* ------------------------------------------------------- input sets ----

\* positionAmt of the symbol's position row (0 = flat, > 0 long, < 0 short).
PositionAmts == {0, 500, -500}
\* entryPrice of an open position.
EntryPrices == {6000}
\* leverage of the position row.
Leverages == {10}
\* markPrice / ticker price: for a long entered at 6.000 with leverage 10
\* these are ROI -5.83 %, -4.17 %, 2.5 %, 4.17 % and 5.83 %, and the
\* opposite for a short.
MarkPrices == {5965, 5975, 6015, 6025, 6035}
\* availableBalance of the USDT asset.
AvailableBalance == 1000

\* <<stop_loss_percent, max_stop_loss_percent, leverage>> as passed to
\* check_and_create_stop_loss: the defaults (0.01 %, 15 %, 20), a start
\* one step below the cap, a start above the cap, and a zero leverage.
GuardArguments ==
    { <<DefaultStartPercent, DefaultCapPercent, DefaultGuardLeverage>>,
      <<1450, DefaultCapPercent, DefaultGuardLeverage>>,
      <<1600, DefaultCapPercent, DefaultGuardLeverage>>,
      <<DefaultStartPercent, 100, 0>> }

\* trailing_levels as passed by the caller: the head of the default ladder,
\* the same levels unsorted, one level, and the empty list.
Ladders ==
    { << <<300, 150>>, <<500, 300>>, <<700, 500>> >>,
      << <<500, 300>>, <<300, 150>> >>,
      << >> }

\* ---------------------------------------------------------- numbers ----

Abs(x) == IF x < 0 THEN -x ELSE x

\* round(price, 2): the nearest multiple of 0.01, ties to the even one, of
\* the exact value n / d thousandths plus the whole thousandths `base`
\* (d > 0).
round_down_to_precision(base, n, d) ==
    LET cents == base \div 10
        rest  == base % 10
        q     == (rest * d + n) \div (10 * d)
        r     == (rest * d + n) % (10 * d)
    IN  10 * (IF 2 * r < 10 * d THEN cents + q
              ELSE IF 2 * r > 10 * d THEN cents + q + 1
              ELSE IF (cents + q) % 2 = 0 THEN cents + q ELSE cents + q + 1)

\* entry_price * (1 + sign * (percent / 100) / leverage), rounded to 2
\* decimals; sign is 1 or -1, percent in hundredths of a percent.  The
\* product entry_price * percent is taken in two parts, the whole
\* thousandths and the rest over 10000 * |leverage|, so that a price of
\* 50000 stays within the integers; a negative leverage turns the sign.
LeveragedStopPrice(entry_price, percent, leverage, sign) ==
    LET d     == 10000 * Abs(leverage)
        s     == IF leverage < 0 THEN -sign ELSE sign
        whole == (entry_price \div d) * percent
                     + ((entry_price % d) * percent) \div d
        rest  == ((entry_price % d) * percent) % d
    IN  round_down_to_precision(entry_price + s * whole, s * rest, d)

\* ------------------------------------------------------------ state ----

VARIABLES
    position,         \* the symbol's row: [amt, entry, lev]
    markPrice,        \* the exchange's mark / ticker price of the symbol
    openOrders,       \* the symbol's open orders, oldest first
    trailing_levels,  \* the ladder the caller passes to update_dynamic_stop_loss
    pc,               \* "idle", or "sl_loop" inside the while loop (line 583)
    guard,            \* locals of check_and_create_stop_loss while it loops
    last,             \* what the call in progress (or the last call) did
    reached,          \* highest profit trigger any trailing update selected
    calls,            \* calls of the order manager so far
    calc,             \* the last call of a price or sizing function: arguments, result
    balance,          \* availableBalance of the USDT asset, shared by all symbols
    tasks,            \* the create_order calls running side by side, one a symbol
    books,            \* each of their symbols' open orders on the exchange
    rows              \* the account's position rows, of every symbol

vars == <<position, markPrice, openOrders, trailing_levels, pc, guard, last,
          reached, calls, calc, balance, tasks, books, rows>>

\* What the trailing-stop engine, the guard and the order manager of one
\* symbol leave alone.
others == <<calc, balance, tasks, books, rows>>

\* --------------------------------------------------------- exchange ----

\* What the exchange may answer: accepted, BinanceAPIException with the
\* message "Order would immediately trigger", another BinanceAPIException,
\* or any other exception of the client (connection, timeout, ...).
AllOutcomes == {"ok", "trigger", "api", "err"}

Order(type, side, price, qty, reduceOnly, tif) ==
    [type |-> type, side |-> side, price |-> price, qty |-> qty,
     reduceOnly |-> reduceOnly, tif |-> tif]

\* One request of a call and the exchange's answer.
Req(name, res) ==
    [req |-> name, order |-> Order("-", "-", 0, 0, FALSE, "-"), res |-> res]
OrderReq(o, res) == [req |-> "create_order", order |-> o, res |-> res]

IsStop(o) == o.type \in {"STOP_MARKET", "STOP"}
StopIndexes(orders) == {i \in 1..Len(orders) : IsStop(orders[i])}

\* The answer to the placement of o: an accepted order needs room in the
\* book; the exchange rejects it otherwise.
Placed(orders, o, res) ==
    IF res = "ok"
       /\ (\/ Len(orders) >= MaxOpenOrders
           \/ (IsStop(o) /\ Cardinality(StopIndexes(orders)) >= MaxStopOrders))
    THEN "api" ELSE res
RemoveAt(orders, i) ==
    [j \in 1..(Len(orders) - 1) |-> IF j < i THEN orders[j] ELSE orders[j + 1]]
Min(S) == CHOOSE x \in S : \A y \in S : x <= y
Max(S) == CHOOSE x \in S : \A y \in S : x >= y

\* --------------------------------------------------- call records ----

\* The record of a call: the method (op), its arguments (start, cap, lev,
\* ptype), the book before it (pre), its requests with the exchange's
\* answers (log), whether an exception left it (raised), whether it called
\* check_and_create_stop_loss (fallback), whether the while loop ended on
\* its condition (exhausted), the percents attempted (attempts) and
\* stop_loss_percent after them (percent), the trigger of the level
\* selected (level) and new_sl_price (stop); and of the call before it:
\* whether it was update_dynamic_stop_loss too with nothing in between
\* (repeat), its placements (before) and its cancels (cancels); whether the
\* call runs again a call that was cut short (resumed) and the book that
\* call would have left had it run to its end (expect); what get_roi
\* returns for the position and the mark price of the call, times the entry
\* price (roi).
NoCall ==
    [op |-> "none", log |-> <<>>, raised |-> FALSE, pre |-> <<>>,
     fallback |-> FALSE, exhausted |-> FALSE, attempts |-> <<>>,
     start |-> 0, cap |-> 0,
     percent |-> 0, level |-> 0, stop |-> 0, repeat |-> FALSE,
     before |-> 0, cancels |-> 0, ptype |-> "-", lev |-> 0,
     resumed |-> FALSE, expect |-> <<>>, roi |-> 0]

NoGuard == [percent |-> 0, cap |-> 0, lev |-> 0, amt |-> 0, entry |-> 0]

PlacementsIn(log) ==
    Cardinality({i \in 1..Len(log) : log[i].req = "create_order"})
AcceptedIn(log) ==
    Cardinality({i \in 1..Len(log) :
                    log[i].req = "create_order" /\ log[i].res = "ok"})
CancelsIn(log) ==
    Cardinality({i \in 1..Len(log) :
                    log[i].req \in {"cancel_order", "cancel_all"}})

\* ------------------------------------------------------- exceptions ----

\* Kinds of exception: "trigger" and "api" are BinanceAPIException; "err"
\* and the interpreter's own errors are not.
IsBinanceAPIException(kind) == kind \in {"trigger", "api"}
ExceptionKinds ==
    {"trigger", "api", "err", "TypeError", "IndexError", "ZeroDivisionError",
     "ValueError"}

\* A handler that names BinanceAPIException where the code names Exception.
UpdateOuterCatches_ApiOnly(kind) == IsBinanceAPIException(kind)

\* except Exception as e (line 479), around the whole of
\* update_dynamic_stop_loss.
UpdateOuterCatches(kind) == kind \in ExceptionKinds
\* except BinanceAPIException as e (line 450), around the cancel.
UpdateCancelCatches(kind) == IsBinanceAPIException(kind)
\* except BinanceAPIException as e (line 469), around the placement.
UpdatePlaceCatches(kind) == IsBinanceAPIException(kind)

\* ------------------------------------------------------------- roi ----

\* get_roi without the return of 0.0 for a flat position or an entry
\* price of 0 (lines 511-512).
get_roi_NoZeroCheck(pos, mark) ==
    IF pos.amt > 0 THEN pos.lev * (mark - pos.entry) * 10000
    ELSE pos.lev * (pos.entry - mark) * 10000

\* get_roi: leverage * (mark - entry) / entry * 100 for LONG, mirrored for
\* SHORT, kept as the numerator over entry_price, in hundredths of a
\* percent; 0.0 when position_amt == 0 or entry_price == 0.
get_roi(pos, mark) ==
    IF pos.amt = 0 \/ pos.entry = 0 THEN 0
    ELSE IF pos.amt > 0 THEN pos.lev * (mark - pos.entry) * 10000
    ELSE pos.lev * (pos.entry - mark) * 10000

\* profit_pct >= profit_trigger
ProfitReaches(pos, mark, trigger) ==
    get_roi(pos, mark) >= trigger * pos.entry

\* sorted(trailing_levels, key=lambda x: x[0]): stable, ascending trigger.
RECURSIVE InsertLevel(_, _)
InsertLevel(sorted, x) ==
    IF sorted = <<>> THEN <<x>>
    ELSE IF sorted[Len(sorted)][1] <= x[1] THEN Append(sorted, x)
    ELSE Append(InsertLevel(SubSeq(sorted, 1, Len(sorted) - 1), x),
                sorted[Len(sorted)])

\* The ladder taken in the caller's order, without sorted().
SortLevels_Unsorted(levels) == levels

RECURSIVE SortLevels(_)
SortLevels(levels) ==
    IF levels = <<>> THEN <<>>
    ELSE InsertLevel(SortLevels(SubSeq(levels, 1, Len(levels) - 1)),
                     levels[Len(levels)])

\* The for loop of lines 384-388: the last level reached before the first
\* one that is not; <<>> stands for None.
RECURSIVE TriggeredFrom(_, _, _, _, _)
TriggeredFrom(sorted, i, pos, mark, found) ==
    IF i > Len(sorted) THEN found
    ELSE IF ProfitReaches(pos, mark, sorted[i][1])
         THEN TriggeredFrom(sorted, i + 1, pos, mark, sorted[i])
         ELSE found

TriggeredLevel(levels, pos, mark) ==
    TriggeredFrom(SortLevels(levels), 1, pos, mark, <<>>)

\* A tolerance of zero: no two prices are within it.
WithinTolerance_ZeroTolerance(current_sl_price, new_sl_price) ==
    Abs(current_sl_price - new_sl_price) < 0

\* tolerance = 0.0001: stop prices are multiples of 0.01, so two of them
\* are within tolerance exactly when they are equal.
WithinTolerance(current_sl_price, new_sl_price) ==
    Abs(current_sl_price - new_sl_price) * 10 < 1

\* The first open order of type STOP_MARKET or STOP (lines 374-378); 0
\* stands for None.
CurrentStopIndex(orders) ==
    IF StopIndexes(orders) = {} THEN 0 ELSE Min(StopIndexes(orders))

\* ------------------------------------- update_dynamic_stop_loss ----

\* How a run of the body of update_dynamic_stop_loss ends: "return" (it
\* returned, or fell off the end), "fallback" (a handler took over and calls
\* check_and_create_stop_loss) or "raise" (an exception left the method).
UpdateEnd(exit, orders, log, level, stop) ==
    [exit |-> exit, orders |-> orders, log |-> log, level |-> level,
     stop |-> stop]

UpdateOuter(kind, orders, log, level, stop) ==
    UpdateEnd(IF UpdateOuterCatches(kind) THEN "fallback" ELSE "raise",
              orders, log, level, stop)

\* Steps 9 and 10 with a placement only where a stop was found to replace.
UpdateReplace_OnlyReplaces(pos, orders, log, cur, level, new_sl_price, occ, ocp) ==
    LET l7  == Append(log, Req("cancel_order", occ))
        o7  == IF occ = "ok" THEN RemoveAt(orders, cur) ELSE orders
        ord == Order("STOP_MARKET", IF pos.amt > 0 THEN "SELL" ELSE "BUY",
                     new_sl_price, Abs(pos.amt), TRUE, "GTC")
        p   == Placed(o7, ord, ocp)
        l8  == Append(l7, OrderReq(ord, p))
    IN  IF cur = 0
        THEN UpdateEnd("return", orders, log, level, new_sl_price)
        ELSE IF occ # "ok" /\ ~UpdateCancelCatches(occ)
        THEN UpdateOuter(occ, o7, l7, level, new_sl_price)
        ELSE IF p = "ok"
        THEN UpdateEnd("return", Append(o7, ord), l8, level, new_sl_price)
        ELSE IF UpdatePlaceCatches(p)
        THEN UpdateEnd("fallback", o7, l8, level, new_sl_price)
        ELSE UpdateOuter(p, o7, l8, level, new_sl_price)

\* Steps 9 and 10 with the new stop always on the side SELL.
UpdateReplace_SellSide(pos, orders, log, cur, level, new_sl_price, occ, ocp) ==
    LET l7  == IF cur = 0 THEN log ELSE Append(log, Req("cancel_order", occ))
        o7  == IF cur # 0 /\ occ = "ok" THEN RemoveAt(orders, cur) ELSE orders
        ord == Order("STOP_MARKET", "SELL", new_sl_price, Abs(pos.amt), TRUE,
                     "GTC")
        p   == Placed(o7, ord, ocp)
        l8  == Append(l7, OrderReq(ord, p))
    IN  IF cur # 0 /\ occ # "ok" /\ ~UpdateCancelCatches(occ)
        THEN UpdateOuter(occ, o7, l7, level, new_sl_price)
        ELSE IF p = "ok"
        THEN UpdateEnd("return", Append(o7, ord), l8, level, new_sl_price)
        ELSE IF UpdatePlaceCatches(p)
        THEN UpdateEnd("fallback", o7, l8, level, new_sl_price)
        ELSE UpdateOuter(p, o7, l8, level, new_sl_price)

\* Steps 9 and 10 (lines 442-478): cancel the stop found, place the new one.
UpdateReplace(pos, orders, log, cur, level, new_sl_price, occ, ocp) ==
    LET l7  == IF cur = 0 THEN log ELSE Append(log, Req("cancel_order", occ))
        o7  == IF cur # 0 /\ occ = "ok" THEN RemoveAt(orders, cur) ELSE orders
        ord == Order("STOP_MARKET", IF pos.amt > 0 THEN "SELL" ELSE "BUY",
                     new_sl_price, Abs(pos.amt), TRUE, "GTC")
        p   == Placed(o7, ord, ocp)
        l8  == Append(l7, OrderReq(ord, p))
    IN  IF cur # 0 /\ occ # "ok" /\ ~UpdateCancelCatches(occ)
        THEN UpdateOuter(occ, o7, l7, level, new_sl_price)
        ELSE IF p = "ok"
        THEN UpdateEnd("return", Append(o7, ord), l8, level, new_sl_price)
        ELSE IF UpdatePlaceCatches(p)
        THEN UpdateEnd("fallback", o7, l8, level, new_sl_price)
        ELSE UpdateOuter(p, o7, l8, level, new_sl_price)

\* Steps 6 to 8 without the comparison with the current stop's price of
\* lines 411-424: the stop is replaced unless it is within tolerance.
UpdateGuards_NoLooseningGuard(pos, orders, log, lvl, occ, ocp) ==
    LET cur == CurrentStopIndex(orders)
        new_sl_price ==
            LeveragedStopPrice(pos.entry, lvl[2], pos.lev,
                               IF pos.amt > 0 THEN 1 ELSE -1)
    IN  IF cur # 0 /\ WithinTolerance(orders[cur].price, new_sl_price)
        THEN UpdateEnd("return", orders, log, lvl[1], new_sl_price)
        ELSE UpdateReplace(pos, orders, log, cur, lvl[1], new_sl_price,
                           occ, ocp)

\* Steps 6 to 8 with the comparison of a long (new < current) applied to
\* a short as well.
UpdateGuards_SameComparison(pos, orders, log, lvl, occ, ocp) ==
    LET cur == CurrentStopIndex(orders)
        new_sl_price ==
            LeveragedStopPrice(pos.entry, lvl[2], pos.lev,
                               IF pos.amt > 0 THEN 1 ELSE -1)
        current_sl_price == orders[cur].price
    IN  IF cur # 0 /\ new_sl_price < current_sl_price
        THEN UpdateEnd("return", orders, log, lvl[1], new_sl_price)
        ELSE IF cur # 0 /\ WithinTolerance(current_sl_price, new_sl_price)
        THEN UpdateEnd("return", orders, log, lvl[1], new_sl_price)
        ELSE UpdateReplace(pos, orders, log, cur, lvl[1], new_sl_price,
                           occ, ocp)

\* Steps 6 to 8 (lines 397-440): the new stop price and the two guards.
UpdateGuards(pos, orders, log, lvl, occ, ocp) ==
    LET cur == CurrentStopIndex(orders)
        new_sl_price ==
            LeveragedStopPrice(pos.entry, lvl[2], pos.lev,
                               IF pos.amt > 0 THEN 1 ELSE -1)
        current_sl_price == orders[cur].price
    IN  IF cur # 0 /\ pos.amt > 0 /\ new_sl_price < current_sl_price
        THEN UpdateEnd("return", orders, log, lvl[1], new_sl_price)
        ELSE IF cur # 0 /\ pos.amt < 0 /\ new_sl_price > current_sl_price
        THEN UpdateEnd("return", orders, log, lvl[1], new_sl_price)
        ELSE IF cur # 0 /\ WithinTolerance(current_sl_price, new_sl_price)
        THEN UpdateEnd("return", orders, log, lvl[1], new_sl_price)
        ELSE UpdateReplace(pos, orders, log, cur, lvl[1], new_sl_price,
                           occ, ocp)

\* The try block of update_dynamic_stop_loss (lines 340-478).  rd names the
\* read the exchange fails (or "none") and rk how; occ and ocp are its
\* answers to the cancel and to the placement.  The log keeps the cancel and
\* the placement, not the reads.
UpdateBody(pos, mark, orders, levels, rd, rk, occ, ocp) ==
    LET R(name) == IF rd = name THEN rk ELSE "ok"
        lvl == TriggeredLevel(levels, pos, mark)
    IN  IF R("position") # "ok"
        THEN UpdateOuter(R("position"), orders, <<>>, 0, 0)
        ELSE IF pos.amt = 0 \/ pos.entry = 0
        THEN UpdateEnd("return", orders, <<>>, 0, 0)
        ELSE IF R("mark_roi") # "ok"
        THEN UpdateOuter(R("mark_roi"), orders, <<>>, 0, 0)
        ELSE IF R("leverage_roi") # "ok"
        THEN UpdateOuter("TypeError", orders, <<>>, 0, 0)
        ELSE IF R("mark") # "ok"
        THEN UpdateOuter(R("mark"), orders, <<>>, 0, 0)
        ELSE IF get_roi(pos, mark) <= 0
        THEN UpdateEnd("return", orders, <<>>, 0, 0)
        ELSE IF R("orders") # "ok"
        THEN UpdateOuter(R("orders"), orders, <<>>, 0, 0)
        ELSE IF lvl = <<>>
        THEN IF levels = <<>>
             THEN UpdateOuter("IndexError", orders, <<>>, 0, 0)
             ELSE UpdateEnd("return", orders, <<>>, 0, 0)
        ELSE IF R("leverage") # "ok"
        THEN UpdateOuter("TypeError", orders, <<>>, lvl[1], 0)
        ELSE UpdateGuards(pos, orders, <<>>, lvl, occ, ocp)

UpdateReads ==
    {"position", "leverage_roi", "mark_roi", "mark", "orders", "leverage"}

\* ----------------------------------- check_and_create_stop_loss ----

\* except BinanceAPIException (line 641) and except Exception (line 644),
\* around the whole of check_and_create_stop_loss.
GuardOuterCatches(kind) ==
    IsBinanceAPIException(kind) \/ kind \in ExceptionKinds
\* except BinanceAPIException (line 615) and except Exception (line 631),
\* around one attempt of the loop.
GuardAttemptCatches(kind) ==
    IsBinanceAPIException(kind) \/ kind \in ExceptionKinds
\* The test of the message left out: every BinanceAPIException escalates.
IsImmediateTrigger_AnyMessage(kind) == TRUE

\* if "Order would immediately trigger" in str(e) (line 618)
IsImmediateTrigger(kind) == kind = "trigger"

\* A search for the type STOP where the code names STOP_MARKET.
has_stop_loss_WrongType(orders) ==
    \E i \in 1..Len(orders) : orders[i].type = "STOP"

\* for order in open_orders: if order['type'] == 'STOP_MARKET' (line 572)
has_stop_loss(orders) ==
    \E i \in 1..Len(orders) : orders[i].type = "STOP_MARKET"

GuardReads == {"position", "orders"}

\* Lines 550-579: the reads before the loop.  "loop" enters the while loop,
\* "return" leaves the method, "raise" lets an exception out of it.
GuardEnter(pos, orders, grd, grk) ==
    LET R(name) == IF grd = name THEN grk ELSE "ok"
        Caught(kind) == IF GuardOuterCatches(kind) THEN "return" ELSE "raise"
    IN  IF R("position") # "ok" THEN Caught(R("position"))
        ELSE IF pos.amt = 0 THEN "return"
        ELSE IF R("orders") # "ok" THEN Caught(R("orders"))
        ELSE IF has_stop_loss(orders) THEN "return"
        ELSE "loop"

\* Lines 586-609: the order one attempt submits.
GuardOrder(g) ==
    Order("STOP_MARKET", IF g.amt > 0 THEN "SELL" ELSE "BUY",
          LeveragedStopPrice(g.entry, g.percent, g.lev,
                             IF g.amt > 0 THEN -1 ELSE 1),
          Abs(g.amt), FALSE, "-")

\* while stop_loss_percent < max_stop_loss_percent, where the code has <=.
GuardContinues_Strict(g) == g.percent < g.cap

\* while stop_loss_percent <= max_stop_loss_percent (line 583)
GuardContinues(g) == g.percent <= g.cap

\* One pass of the loop in which stop_loss_percent += 0.5 (line 624) is
\* missing: a rejected price is tried again.
GuardAttempt_NoEscalation(g, orders, oc) ==
    LET o    == GuardOrder(g)
        kind == IF g.lev = 0 THEN "ZeroDivisionError"
                ELSE Placed(orders, o, oc)
    IN  [kind   |-> kind,
         orders |-> IF kind = "ok" THEN Append(orders, o) ELSE orders,
         guard  |-> g,
         exit   |-> IF kind = "trigger" THEN "loop" ELSE "return",
         log    |-> IF g.lev = 0 THEN <<>> ELSE <<OrderReq(o, kind)>>]

\* One pass of the while loop (lines 583-634) with stop_loss_percent <=
\* max_stop_loss_percent: what the exchange answers (kind), the book and
\* the locals after it, and whether the loop goes on ("loop"), the method
\* ends ("return") or an exception leaves it ("raise").
GuardAttempt(g, orders, oc) ==
    LET o    == GuardOrder(g)
        kind == IF g.lev = 0 THEN "ZeroDivisionError"
                ELSE Placed(orders, o, oc)
        on   == kind # "ok" /\ GuardAttemptCatches(kind)
                    /\ IsBinanceAPIException(kind) /\ IsImmediateTrigger(kind)
    IN  [kind   |-> kind,
         orders |-> IF kind = "ok" THEN Append(orders, o) ELSE orders,
         guard  |-> IF on
                    THEN [g EXCEPT !.percent = g.percent + EscalationStep]
                    ELSE g,
         exit   |-> IF kind = "ok" THEN "return"
                    ELSE IF ~GuardAttemptCatches(kind)
                    THEN (IF GuardOuterCatches(kind) THEN "return" ELSE "raise")
                    ELSE IF on THEN "loop" ELSE "return",
         log    |-> IF g.lev = 0 THEN <<>> ELSE <<OrderReq(o, kind)>>]

\* How the while loop ends when run to its end from the locals g: the book,
\* whether an exception leaves the method, the request that ended the loop
\* (none when the loop condition failed: exhausted) and the locals then.
RECURSIVE GuardRuns(_, _, _)
GuardRuns(g, orders, G) ==
    IF ~GuardContinues(g)
    THEN {[orders |-> orders, exit |-> "return", log |-> <<>>,
           exhausted |-> TRUE]}
    ELSE UNION { IF a.exit = "loop" THEN GuardRuns(a.guard, a.orders, G)
                 ELSE {[orders |-> a.orders, exit |-> a.exit,
                        log |-> a.log, exhausted |-> FALSE]} :
                 a \in {GuardAttempt(g, orders, oc) : oc \in G} }

\* ---------------------------------------------------------- actions ----

\* The answers the exchange may give, among the outcomes G: which read it
\* fails and how (<<"none", "ok">>: none), and how it answers a cancel.
ReadPlans(G, reads) ==
    {<<"none", "ok">>} \cup (reads \X (G \cap {"api", "err"}))
CancelOutcomes(G) == G \cap {"ok", "api", "err"}

\* The mark price moves (the exchange, between two calls; a move during a
\* call shows in the exchange's answers).  The record of the last call is
\* dropped: two calls are in a row when nothing happens between them.
MarkPriceMove ==
    /\ pc = "idle"
    /\ \E m \in MarkPrices \ {markPrice} : markPrice' = m
    /\ last' = NoCall
    /\ UNCHANGED <<position, openOrders, trailing_levels, pc, guard, reached, calls, others>>

\* The locals of check_and_create_stop_loss as the while loop starts.
GuardLocals(start, cap, lev) ==
    [percent |-> start, cap |-> cap, lev |-> lev, amt |-> position.amt,
     entry |-> position.entry]

\* Every way check_and_create_stop_loss(symbol, start, cap, lev) can run to
\* its end on the book `orders`, over the exchange's answers among G.
GuardCalls(G, orders, start, cap, lev) ==
    UNION { IF e = "loop"
            THEN GuardRuns(GuardLocals(start, cap, lev), orders, G)
            ELSE {[orders |-> orders, exit |-> e, log |-> <<>>,
                   exhausted |-> FALSE]} :
            e \in { GuardEnter(position, orders, gp[1], gp[2]) :
                    gp \in ReadPlans(G, GuardReads) } }

\* Every way the try block of update_dynamic_stop_loss can end in the
\* current state, over the exchange's answers among G.
UpdateRuns(G) ==
    { UpdateBody(position, markPrice, openOrders, trailing_levels,
                 rp[1], rp[2], "ok", "ok") : rp \in ReadPlans(G, UpdateReads) }
    \cup
    { UpdateBody(position, markPrice, openOrders, trailing_levels,
                 "none", "ok", oc[1], oc[2]) : oc \in CancelOutcomes(G) \X G }

\* update_dynamic_stop_loss(symbol, trailing_levels), lines 304-482,
\* with the check_and_create_stop_loss(symbol=symbol) it falls back to
\* (lines 470 and 481), which runs with that method's default arguments.
\* track: whether the call is followed over the calls before it (reached,
\* repeat, before).
UpdateDynamicStopLoss(G, track) ==
    /\ pc = "idle"
    /\ \E r \in UpdateRuns(G) :
        LET rec == [NoCall EXCEPT
                       !.op = "update_dynamic_stop_loss",
                       !.pre = openOrders, !.log = r.log,
                       !.level = r.level, !.stop = r.stop,
                       !.roi = get_roi(position, markPrice),
                       !.repeat = (track
                                   /\ last.op = "update_dynamic_stop_loss"),
                       !.before = IF track THEN PlacementsIn(last.log)
                                  ELSE 0,
                       !.cancels = IF track THEN CancelsIn(last.log)
                                   ELSE 0,
                       !.resumed = (track /\ last.op = "interrupted"),
                       !.expect = IF track /\ last.op = "interrupted"
                                  THEN last.expect ELSE <<>>]
        IN  /\ reached' = IF track /\ r.level > reached THEN r.level
                          ELSE reached
            /\ IF r.exit = "fallback"
               THEN \E g \in GuardCalls(G, r.orders, DefaultStartPercent,
                                        DefaultCapPercent,
                                        DefaultGuardLeverage) :
                         /\ openOrders' = g.orders
                         /\ last' = [rec EXCEPT
                                        !.fallback = TRUE,
                                        !.log = r.log \o g.log,
                                        !.raised = (g.exit = "raise"),
                                        !.exhausted = g.exhausted,
                                        !.start = DefaultStartPercent,
                                        !.cap = DefaultCapPercent,
                                        !.lev = DefaultGuardLeverage]
               ELSE /\ openOrders' = r.orders
                    /\ last' = [rec EXCEPT !.raised = (r.exit = "raise")]
    /\ UNCHANGED <<position, markPrice, trailing_levels, pc, guard, calls, others>>

\* Every run of update_dynamic_stop_loss to its end, the fallback
\* included: the book it leaves and its requests.
UpdateCompletions(G) ==
    UNION { IF r.exit = "fallback"
            THEN {[orders |-> g.orders, log |-> r.log \o g.log] :
                  g \in GuardCalls(G, r.orders, DefaultStartPercent,
                                   DefaultCapPercent, DefaultGuardLeverage)}
            ELSE {[orders |-> r.orders, log |-> r.log]} :
            r \in UpdateRuns(G) }

\* The book after the exchange has served the requests of a log: an
\* accepted cancel removes the stop found, an accepted placement adds its
\* order.
RECURSIVE Replay(_, _)
Replay(orders, log) ==
    IF log = <<>> THEN orders
    ELSE LET e == Head(log)
         IN  Replay(IF e.res # "ok" THEN orders
                    ELSE IF e.req = "cancel_order"
                    THEN RemoveAt(orders, CurrentStopIndex(orders))
                    ELSE IF e.req = "create_order"
                    THEN Append(orders, e.order)
                    ELSE orders,
                    Tail(log))

\* A call of update_dynamic_stop_loss that the end of the process cuts
\* short after n of its requests: the exchange keeps what they did, the
\* program keeps nothing.
UpdateInterrupted(G) ==
    /\ pc = "idle"
    /\ \E c \in UpdateCompletions(G) :
       \E n \in 0..Len(c.log) :
        /\ openOrders' = Replay(openOrders, SubSeq(c.log, 1, n))
        /\ last' = [NoCall EXCEPT
                       !.op = "interrupted", !.pre = openOrders,
                       !.log = SubSeq(c.log, 1, n),
                       !.expect = IF last.op = "interrupted"
                                  THEN last.expect ELSE c.orders]
    /\ UNCHANGED <<position, markPrice, trailing_levels, pc, guard, reached, calls, others>>

\* check_and_create_stop_loss(symbol, stop_loss_percent,
\* max_stop_loss_percent, leverage), lines 528-646.
CheckAndCreateStopLoss(G) ==
    /\ pc = "idle"
    /\ \E args \in GuardArguments :
       \E g \in GuardCalls(G, openOrders, args[1], args[2], args[3]) :
        /\ openOrders' = g.orders
        /\ last' = [NoCall EXCEPT
                       !.op = "check_and_create_stop_loss",
                       !.pre = openOrders, !.log = g.log,
                       !.raised = (g.exit = "raise"),
                       !.exhausted = g.exhausted,
                       !.start = args[1], !.cap = args[2], !.lev = args[3]]
    /\ UNCHANGED <<position, markPrice, trailing_levels, pc, guard, reached, calls, others>>

\* ------------------------------------------ the while loop, by steps ----

\* check_and_create_stop_loss up to its while loop (lines 528-579).
StopLossStart(G) ==
    /\ pc = "idle"
    /\ \E args \in GuardArguments, gp \in ReadPlans(G, GuardReads) :
        LET g == GuardEnter(position, openOrders, gp[1], gp[2])
        IN  /\ pc' = IF g = "loop" THEN "sl_loop" ELSE "idle"
            /\ guard' = IF g = "loop"
                        THEN GuardLocals(args[1], args[2], args[3])
                        ELSE NoGuard
            /\ last' = [NoCall EXCEPT
                           !.op = "check_and_create_stop_loss",
                           !.pre = openOrders,
                           !.raised = (g = "raise"),
                           !.start = args[1], !.cap = args[2],
                           !.lev = args[3], !.percent = args[1]]
    /\ UNCHANGED <<position, markPrice, openOrders, trailing_levels, reached, calls, others>>

\* One pass of the while loop (lines 583-634).
StopLossAttempt(G) ==
    /\ pc = "sl_loop"
    /\ GuardContinues(guard)
    /\ \E a \in {GuardAttempt(guard, openOrders, oc) : oc \in G} :
            /\ openOrders' = a.orders
            /\ pc' = IF a.exit = "loop" THEN "sl_loop" ELSE "idle"
            /\ guard' = IF a.exit = "loop" THEN a.guard ELSE NoGuard
            /\ last' = [last EXCEPT
                           !.log = last.log \o a.log,
                           !.attempts = IF a.log = <<>> THEN last.attempts
                                        ELSE Append(last.attempts,
                                                    guard.percent),
                           !.percent = a.guard.percent,
                           !.raised = (a.exit = "raise")]
    /\ UNCHANGED <<position, markPrice, trailing_levels, reached, calls, others>>

\* The loop condition fails (line 583) and the method ends (lines 636-639).
StopLossExhausted ==
    /\ pc = "sl_loop"
    /\ ~GuardContinues(guard)
    /\ pc' = "idle"
    /\ guard' = NoGuard
    /\ last' = [last EXCEPT !.exhausted = TRUE]
    /\ UNCHANGED <<position, markPrice, openOrders, trailing_levels, reached, calls, others>>

\* ---------------------------------------------------- order manager ----

\* calculate_tp_sl_prices (lines 757-793): round(tp_price, 2) and
\* round(sl_price, 2).
calculate_tp_sl_prices(entry_price, tp_percent, sl_percent, position_type, leverage) ==
    <<LeveragedStopPrice(entry_price, tp_percent, leverage,
                         IF position_type = "LONG" THEN 1 ELSE -1),
      LeveragedStopPrice(entry_price, sl_percent, leverage,
                         IF position_type = "LONG" THEN -1 ELSE 1)>>

\* Exit orders on the side of the entry: SELL and BUY exchanged.
Bracket_SameSide(position_type, qty, prices) ==
    LET side == IF position_type = "LONG" THEN "BUY" ELSE "SELL"
    IN  <<Order("TAKE_PROFIT_MARKET", side, prices[1], qty, TRUE, "GTC"),
          Order("STOP_MARKET", side, prices[2], qty, TRUE, "GTC")>>

\* The take-profit and stop-loss orders create_order leaves (lines 212-232).
Bracket(position_type, qty, prices) ==
    LET side == IF position_type = "LONG" THEN "SELL" ELSE "BUY"
    IN  <<Order("TAKE_PROFIT_MARKET", side, prices[1], qty, TRUE, "GTC"),
          Order("STOP_MARKET", side, prices[2], qty, TRUE, "GTC")>>

\* floor(n * 10^k / d) and what is left: <<quotient, remainder>>.
RECURSIVE LongDivide(_, _, _)
LongDivide(n, d, k) ==
    IF k = 0 THEN <<n \div d, n % d>>
    ELSE LET p == LongDivide(n, d, k - 1)
         IN  <<p[1] * 10 + (p[2] * 10) \div d, (p[2] * 10) % d>>

\* calculate_quantity (lines 725-753): round(usdt_balance * leverage /
\* current_price, 6), in millionths; usdt_balance is in units of 0.00001,
\* current_price in thousandths, so the quotient is in hundredths.
calculate_quantity(usdt_balance, leverage, current_price) ==
    LET p == LongDivide(usdt_balance * leverage, current_price, 4)
        d == current_price
    IN  IF 2 * p[2] < d THEN p[1]
        ELSE IF 2 * p[2] > d THEN p[1] + 1
        ELSE IF p[1] % 2 = 0 THEN p[1] ELSE p[1] + 1

\* round_to_precision (lines 797-799): math.floor(value * 1000) / 1000 of
\* the value n / d, in thousandths.
round_to_precision(n, d) == (n \div d) * 1000 + ((n % d) * 1000) \div d

\* cancel_all_open_orders without its handlers: a rejected cancel leaves
\* the method, and create_order with it.
CancelAllCatches_None(kind) == FALSE

\* except BinanceAPIException (line 714) and except Exception (line 717).
CancelAllCatches(kind) ==
    IsBinanceAPIException(kind) \/ kind \in ExceptionKinds
\* except BinanceAPIException (line 295) and except Exception (line 298).
CloseAllCatches(kind) ==
    IsBinanceAPIException(kind) \/ kind \in ExceptionKinds
\* A handler that names BinanceAPIException where the code names Exception.
CreateCatches_ApiOnly(kind) == IsBinanceAPIException(kind)

\* A handler that lets the ValueError of line 160 through.
CreateCatches_NoValueError(kind) == kind \in ExceptionKinds \ {"ValueError"}

\* except Exception as e (line 235).
CreateCatches(kind) == kind \in ExceptionKinds

\* How a call of the order manager ends: the account after it, the
\* requests it made and whether an exception left it.
OrdersEnd(kind, catches, pos, orders, log) ==
    [position |-> pos, orders |-> orders, log |-> log,
     raised |-> (kind # "ok" /\ ~catches)]

\* cancel_all_open_orders (lines 700-719); oc is the exchange's answer.
cancel_all_open_orders(pos, orders, oc) ==
    OrdersEnd(oc, CancelAllCatches(oc), pos,
              IF oc = "ok" THEN <<>> ELSE orders,
              <<Req("cancel_all", oc)>>)

Flat(pos) == [amt |-> 0, entry |-> 0, lev |-> pos.lev]

\* close_all_positions (lines 243-300); rk is the exchange's answer to
\* futures_position_information and oc its answer to the closing order.
close_all_positions(pos, orders, rk, oc) ==
    LET read  == <<Req("position_information", rk)>>
        close == Order("MARKET", IF pos.amt > 0 THEN "SELL" ELSE "BUY", 0,
                       Abs(pos.amt), FALSE, "-")
    IN  IF rk # "ok"
        THEN OrdersEnd(rk, CloseAllCatches(rk), pos, orders, read)
        ELSE IF pos.amt = 0
        THEN OrdersEnd("ok", TRUE, pos, orders, read)
        ELSE OrdersEnd(oc, CloseAllCatches(oc),
                       IF oc = "ok" THEN Flat(pos) ELSE pos, orders,
                       Append(read, OrderReq(close, oc)))

\* The requests of the try block of create_order, in the order of the code.
CreateSteps ==
    <<"futures_account", "change_leverage", "ticker_quantity", "ticker",
      "limit", "take_profit", "stop_loss">>

Elements(seq) == {seq[i] : i \in 1..Len(seq)}

\* The exchange's answers inside close_all_positions, among F: to the read,
\* and to the closing order when there is one.
ClosePlans(F, pos) ==
    ((F \ {"ok"}) \X {"ok"})
    \cup ({"ok"} \X (IF pos.amt = 0 THEN {"ok"} ELSE F))

\* The request of the try block of create_order the exchange fails, and how.
CreatePlans(F) ==
    {<<"none", "ok">>} \cup (Elements(CreateSteps) \X (F \ {"ok"}))

\* Lines 164-186 and the three orders of lines 191-232: the entry, the
\* take profit and the stop loss create_order submits when the account's
\* availableBalance is available_balance, the ticker read of
\* calculate_quantity (line 748) returns current_price and the ticker read
\* of line 174 returns `mark`.  Nothing is computed for a leverage of 0,
\* which divides by zero, or for a position_type the method rejects.
CreateOrdersAt(available_balance, current_price, mark, position_type, tp_percent, sl_percent, leverage) ==
    LET usdt_balance == available_balance * BalancePercent
        quantity ==
            round_to_precision(
                calculate_quantity(usdt_balance, leverage, current_price),
                1000000)
        price == round_to_precision(mark, 1000)
    IN  IF leverage = 0 \/ position_type \notin {"LONG", "SHORT"} THEN <<>>
        ELSE <<Order("LIMIT",
                     IF position_type = "LONG" THEN "BUY" ELSE "SELL",
                     price, quantity, FALSE, "GTC")>>
             \o Bracket(position_type, quantity,
                        calculate_tp_sl_prices(price, tp_percent, sl_percent,
                                               position_type, leverage))

\* The same when the two ticker reads return the same price.
CreateOrdersWith(available_balance, mark, position_type, tp_percent, sl_percent, leverage) ==
    CreateOrdersAt(available_balance, mark, mark, position_type, tp_percent,
                   sl_percent, leverage)

\* The same for the balance of the one-symbol account.
CreateOrders(mark, position_type, tp_percent, sl_percent, leverage) ==
    CreateOrdersWith(AvailableBalance, mark, position_type, tp_percent,
                     sl_percent, leverage)

\* The try block of create_order (lines 158-237), submitting the orders
\* `ords`.  step names the request the exchange fails (or "none") and kind
\* how.
CreateTry(pos, orders, ords, position_type, leverage, step, kind) ==
    LET R(name) == IF step = name THEN kind ELSE "ok"
        End(k, ps, os, log) == OrdersEnd(k, CreateCatches(k), ps, os, log)
        p1 == [pos EXCEPT !.lev = leverage]
        l1 == <<Req("futures_account", R("futures_account"))>>
        l2 == Append(l1, Req("change_leverage", R("change_leverage")))
        l3 == Append(l2, Req("ticker", R("ticker_quantity")))
        l4 == Append(l3, Req("ticker", R("ticker")))
        r5 == Placed(orders, ords[1], R("limit"))
        l5 == Append(l4, OrderReq(ords[1], r5))
        o5 == Append(orders, ords[1])
        r6 == Placed(o5, ords[2], R("take_profit"))
        l6 == Append(l5, OrderReq(ords[2], r6))
        o6 == Append(o5, ords[2])
        r7 == Placed(o6, ords[3], R("stop_loss"))
        l7 == Append(l6, OrderReq(ords[3], r7))
        o7 == Append(o6, ords[3])
    IN  IF position_type \notin {"LONG", "SHORT"}
        THEN End("ValueError", pos, orders, <<>>)
        ELSE IF R("futures_account") # "ok"
        THEN End(R("futures_account"), pos, orders, l1)
        ELSE IF R("change_leverage") # "ok"
        THEN End(R("change_leverage"), pos, orders, l2)
        ELSE IF R("ticker_quantity") # "ok"
        THEN End(R("ticker_quantity"), p1, orders, l3)
        ELSE IF R("ticker") # "ok" THEN End(R("ticker"), p1, orders, l4)
        ELSE IF leverage = 0
        THEN End("ZeroDivisionError", p1, orders, l4)
        ELSE IF r5 # "ok" THEN End(r5, p1, orders, l5)
        ELSE IF r6 # "ok" THEN End(r6, p1, o5, l6)
        ELSE IF r7 # "ok" THEN End(r7, p1, o6, l7)
        ELSE End("ok", p1, o7, l7)

\* The requests of a log that place or cancel orders.
Writes(log) ==
    SelectSeq(log, LAMBDA e :
                  e.req \in {"cancel_all", "cancel_order", "create_order"})

\* What the record of a call keeps of a run r: every request when full,
\* the requests that place or cancel orders otherwise.
Recorded(r, full) == IF full THEN r ELSE [r EXCEPT !.log = Writes(r.log)]

\* A run that continues the run r: its account, the requests of both.
After(r, next, full) ==
    Recorded([next EXCEPT !.log = r.log \o next.log], full)

\* create_order (lines 119-237): every way it can run over the exchange's
\* answers among F.  cancel_all_open_orders, close_all_positions and
\* time.sleep(3), which no handler surrounds, then the try block.
create_order(pos, orders, mark, position_type, tp_percent, sl_percent, leverage, F, full) ==
    UNION {
      IF a.raised THEN {a}
      ELSE UNION {
        IF b.raised THEN {b}
        ELSE { After(b, CreateTry(b.position, b.orders, ords, position_type,
                                  leverage, p[1], p[2]), full) :
               p \in CreatePlans(F) } :
        b \in { After(a, [c EXCEPT !.log = Append(c.log, Req("sleep", "ok"))],
                      full) :
                c \in { close_all_positions(a.position, a.orders, x[1], x[2]) :
                        x \in ClosePlans(F, pos) } } } :
      a \in { cancel_all_open_orders(pos, orders, oa) : oa \in F },
      ords \in { CreateOrders(mark, position_type, tp_percent, sl_percent,
                              leverage) } }

\* The arguments of create_order: position_type, tp_percent, sl_percent
\* and leverage.
PositionTypes == {"LONG", "SHORT", "HOLD"}
BracketPercents == {<<1000, 500>>}
CreateLeverages == {10}

OrdersCall(op, r, position_type, leverage) ==
    /\ calls < MaxCalls
    /\ position' = r.position
    /\ openOrders' = r.orders
    /\ last' = [NoCall EXCEPT !.op = op, !.log = r.log,
                              !.raised = r.raised, !.ptype = position_type,
                              !.lev = leverage]
    /\ calls' = calls + 1
    /\ UNCHANGED <<markPrice, trailing_levels, pc, guard, reached, others>>

CreateOrder(G, full) ==
    /\ pc = "idle"
    /\ \E t \in PositionTypes, b \in BracketPercents, l \in CreateLeverages :
       \E r \in create_order(position, openOrders, markPrice, t, b[1], b[2],
                            l, G \cap {"ok", "api", "err"}, full) :
            OrdersCall("create_order", r, t, l)

CloseAllPositions(G, full) ==
    /\ pc = "idle"
    /\ \E r \in { Recorded(close_all_positions(position, openOrders,
                                               x[1], x[2]), full) :
                  x \in ClosePlans(G \cap {"ok", "api", "err"}, position) } :
            OrdersCall("close_all_positions", r, "-", 0)

CancelAllOpenOrders(G) ==
    /\ pc = "idle"
    /\ \E r \in { cancel_all_open_orders(position, openOrders, oc) :
                  oc \in G \cap {"ok", "api", "err"} } :
            OrdersCall("cancel_all_open_orders", r, "-", 0)

\* ------------------------------------------- price and sizing calls ----

\* A call of a function of the price arithmetic: the function (fn), its
\* arguments, the exception that left it ("none": it returned) and what it
\* returned (out).
NoCalc ==
    [fn |-> "none", bal |-> 0, entry |-> 0, tp |-> 0, sl |-> 0,
     ptype |-> "-", lev |-> 0, raised |-> "none", out |-> <<>>]

\* entry_price as passed to calculate_tp_sl_prices, in thousandths: 0.123,
\* 6.005, 6.006, 6.014 and 50000.
PriceEntries == {123, 6005, 6006, 6014, 50000000}
\* <<tp_percent, sl_percent>>: 10 % and 5 %, 0.01 % and 0.01 %, 0 and 0.
PricePercents == {<<1000, 500>>, <<1, 1>>, <<0, 0>>}
\* leverage as passed by the caller.
PriceLeverages == {-10, -1, 0, 1, 8, 10}
\* <<availableBalance, ticker price>> of a create_order call: 1.000 USDT at
\* 5.965, 6.015 and 9.596, and 1000 USDT at 50000.
SizingAccounts ==
    {<<1000, 5965>>, <<1000, 6015>>, <<1000, 9596>>, <<1000000, 50000000>>}

\* calculate_tp_sl_prices(entry_price, tp_percent, sl_percent,
\* position_type, leverage) as a call: the division by a leverage of 0
\* raises ZeroDivisionError (lines 786-792); nothing else is checked.
TpSlCall(entry_price, tp_percent, sl_percent, position_type, leverage) ==
    IF leverage = 0
    THEN [raised |-> "ZeroDivisionError", out |-> <<>>]
    ELSE [raised |-> "none",
          out |-> calculate_tp_sl_prices(entry_price, tp_percent, sl_percent,
                                         position_type, leverage)]

CalculateTpSlPrices ==
    /\ \E e \in PriceEntries, b \in PricePercents, t \in {"LONG", "SHORT"},
          l \in PriceLeverages :
        \E r \in {TpSlCall(e, b[1], b[2], t, l)} :
            calc' = [NoCalc EXCEPT
                        !.fn = "calculate_tp_sl_prices", !.entry = e,
                        !.tp = b[1], !.sl = b[2], !.ptype = t, !.lev = l,
                        !.raised = r.raised, !.out = r.out]
    /\ UNCHANGED <<position, markPrice, openOrders, trailing_levels, pc, guard,
                   last, reached, calls, balance, tasks, books, rows>>

\* Lines 164-232 of create_order on an account and a ticker price: the
\* orders it goes on to submit (none when an exception ends the try block).
SizeOrders ==
    /\ \E a \in SizingAccounts, b \in {<<1000, 500>>}, t \in {"LONG", "SHORT"},
          l \in PriceLeverages :
        \E ords \in {CreateOrdersWith(a[1], a[2], t, b[1], b[2], l)} :
            calc' = [NoCalc EXCEPT
                        !.fn = "create_order", !.bal = a[1], !.entry = a[2],
                        !.tp = b[1], !.sl = b[2], !.ptype = t, !.lev = l,
                        !.raised = IF l = 0 THEN "ZeroDivisionError"
                                   ELSE "none",
                        !.out = ords]
    /\ UNCHANGED <<position, markPrice, openOrders, trailing_levels, pc, guard,
                   last, reached, calls, balance, tasks, books, rows>>

\* <<availableBalance, ticker price>> as calculate_quantity reads it:
\* 1.000 USDT at 5.965, 6.015, 7.243 and 9.596.
TickAccounts ==
    {<<1000, 5965>>, <<1000, 6015>>, <<1000, 7243>>, <<1000, 9596>>}
\* The ticker price at the read of line 174, a moment later: the same,
\* 0.03 lower, 0.03 higher or 0.3 higher.
TickerAfter(current_price) ==
    {current_price, current_price - 30, current_price + 30,
     current_price + 300}
\* leverage as passed to create_order.
TickLeverages == {1, 5, 8, 10}

\* Lines 164-232 of create_order with its two reads of the ticker: the
\* one that sizes the quantity (entry) and the one that prices the orders.
SizeAcrossTicks ==
    /\ \E a \in TickAccounts, t \in {"LONG", "SHORT"}, l \in TickLeverages :
       \E m \in TickerAfter(a[2]) :
            calc' = [NoCalc EXCEPT
                        !.fn = "create_order", !.bal = a[1], !.entry = a[2],
                        !.tp = 1000, !.sl = 500, !.ptype = t, !.lev = l,
                        !.out = CreateOrdersAt(a[1], a[2], m, t, 1000, 500,
                                               l)]
    /\ UNCHANGED <<position, markPrice, openOrders, trailing_levels, pc, guard,
                   last, reached, calls, balance, tasks, books, rows>>

\* ------------------------------------- create_order on two symbols ----

\* Two symbols of one account, each flat, with its own ticker price and one
\* order resting from before.
Symbols == {"A", "B"}
TickerOf(s) == IF s = "A" THEN 6015 ELSE 5965
RestingOrder(s) == Order("LIMIT", "BUY", TickerOf(s) - 100, 100, FALSE, "GTC")

\* The initial margin the exchange sets aside from the available balance
\* for an accepted entry order: price * quantity / leverage, rounded up.
Margin(o, leverage) == -((-(o.price * o.qty)) \div (1000 * leverage))

\* A create_order call on one symbol: where it stands (pc), its arguments,
\* the balance it read times 0.95 (usdt_balance, 0 before the read), the
\* orders it computed (ords) and its requests so far (log).
TaskStart(position_type, leverage) ==
    [pc |-> "cancel", ptype |-> position_type, lev |-> leverage,
     bal |-> 0, ords |-> <<>>, log |-> <<>>]

SymReq(s, name, o, res) == [sym |-> s, req |-> name, order |-> o, res |-> res]
NoOrder == Order("-", "-", 0, 0, FALSE, "-")

TaskStep(s, task, book, bal) ==
    /\ tasks' = [tasks EXCEPT ![s] = task]
    /\ books' = [books EXCEPT ![s] = book]
    /\ balance' = bal
    /\ UNCHANGED <<position, markPrice, openOrders, trailing_levels, pc, guard,
                   last, reached, calls, calc, rows>>

\* self.cancel_all_open_orders(symbol), line 154.
TaskCancelAll(s) ==
    /\ tasks[s].pc = "cancel"
    /\ TaskStep(s, [tasks[s] EXCEPT
                       !.pc = "close",
                       !.log = Append(@, SymReq(s, "cancel_all", NoOrder,
                                                "ok"))],
                <<>>, balance)

\* self.close_all_positions(symbol) and time.sleep(3), lines 155-156: the
\* rows of every symbol are read, the symbol's own row is flat.
TaskCloseAll(s) ==
    /\ tasks[s].pc = "close"
    /\ TaskStep(s, [tasks[s] EXCEPT
                       !.pc = "balance",
                       !.log = Append(@, SymReq(s, "position_information",
                                                NoOrder, "ok"))],
                books[s], balance)

\* usdt_balance = self.available_balance * 0.95, line 164: the read of the
\* account's balance.
TaskReadBalance(s) ==
    /\ tasks[s].pc = "balance"
    /\ TaskStep(s, [tasks[s] EXCEPT
                       !.pc = "size", !.bal = balance,
                       !.log = Append(@, SymReq(s, "futures_account",
                                                NoOrder, "ok"))],
                books[s], balance)

\* Lines 169-186: the leverage, the ticker, quantity and prices.
TaskSize(s) ==
    /\ tasks[s].pc = "size"
    /\ TaskStep(s, [tasks[s] EXCEPT
                       !.pc = "place",
                       !.ords = CreateOrdersWith(tasks[s].bal, TickerOf(s),
                                                 tasks[s].ptype, 1000, 500,
                                                 tasks[s].lev)],
                books[s], balance)

\* Lines 191-232, one futures_create_order at a time: the exchange accepts
\* the entry when the balance covers its margin, which it then sets aside,
\* and refuses it otherwise; a refusal ends the call (line 235).
TaskPlace(s) ==
    /\ tasks[s].pc = "place"
    /\ LET i   == PlacementsIn(tasks[s].log) + 1
           o   == tasks[s].ords[i]
           m   == IF i = 1 THEN Margin(o, tasks[s].lev) ELSE 0
           res == Placed(books[s], o, IF m <= balance THEN "ok" ELSE "api")
       IN  TaskStep(s, [tasks[s] EXCEPT
                           !.pc = IF res = "ok" /\ i < 3 THEN "place"
                                  ELSE "done",
                           !.log = Append(@, SymReq(s, "create_order", o,
                                                    res))],
                    IF res = "ok" THEN Append(books[s], o) ELSE books[s],
                    IF res = "ok" THEN balance - m ELSE balance)

\* ------------------------------ close_all_positions on many rows ----

\* positionAmt of a row of the account: flat, long 0.5, short 0.3.
RowAmts == {0, 500, -300}
\* The rows futures_position_information() returns: up to three, of either
\* symbol; a symbol has two rows when the account holds both sides of it.
RowLists ==
    UNION {[1..n -> [sym : Symbols, amt : RowAmts]] : n \in 0..3}

\* The closing order of a row (lines 262-267 and 276-281).
CloseOrder(row) ==
    Order("MARKET", IF row.amt > 0 THEN "SELL" ELSE "BUY", 0, Abs(row.amt),
          FALSE, "-")

\* The for loop of close_all_positions (lines 254-293) from row i on;
\* ans[j] is the exchange's answer to the closing order of row j.  An
\* answer that is an exception leaves the loop for the handlers of lines
\* 295 and 298.
RECURSIVE CloseFrom(_, _, _, _, _)
CloseFrom(rws, symbol, ans, i, log) ==
    IF i > Len(rws) THEN [rows |-> rws, log |-> log, kind |-> "ok"]
    ELSE IF rws[i].sym # symbol \/ rws[i].amt = 0
    THEN CloseFrom(rws, symbol, ans, i + 1, log)
    ELSE LET l == Append(log, SymReq(symbol, "create_order",
                                     CloseOrder(rws[i]), ans[i]))
         IN  IF ans[i] = "ok"
             THEN CloseFrom([rws EXCEPT ![i].amt = 0], symbol, ans, i + 1, l)
             ELSE [rows |-> rws, log |-> l, kind |-> ans[i]]

\* close_all_positions(symbol) on the rows of the account (lines 243-300);
\* rk is the exchange's answer to futures_position_information.
CloseRows(rws, symbol, rk, ans) ==
    LET read == <<SymReq(symbol, "position_information", NoOrder, rk)>>
    IN  IF rk # "ok" THEN [rows |-> rws, log |-> read, kind |-> rk]
        ELSE CloseFrom(rws, symbol, ans, 1, read)

\* A call of close_all_positions(symbol) on the account's rows, the rows
\* before it kept in the record (pre).
CloseAllRows(G) ==
    /\ pc = "idle"
    /\ calls < MaxCalls
    /\ \E s \in Symbols, rk \in G, ans \in [1..Len(rows) -> G] :
       \E r \in {CloseRows(rows, s, IF ans \in [1..Len(rows) -> {"ok"}]
                                     THEN rk ELSE "ok", ans)} :
        /\ rows' = r.rows
        /\ last' = [NoCall EXCEPT
                       !.op = "close_all_positions", !.pre = rows,
                       !.log = r.log,
                       !.raised = (r.kind # "ok" /\ ~CloseAllCatches(r.kind))]
        /\ calls' = calls + 1
    /\ UNCHANGED <<position, markPrice, openOrders, trailing_levels, pc, guard,
                   reached, calc, balance, tasks, books>>

\* --------------------------------------------------- specification ----

\* An account as the program finds it: flat, or holding a position that is
\* bare or carries the bracket of the create_order call (tp 10 %, sl 5 %)
\* that opened it.
Init ==
    /\ \E amt \in PositionAmts, e \in EntryPrices, l \in Leverages :
        /\ position = [amt |-> amt, entry |-> IF amt = 0 THEN 0 ELSE e,
                       lev |-> l]
        /\ openOrders \in
             IF amt = 0 THEN {<<>>}
             ELSE {<<>>,
                   Bracket(IF amt > 0 THEN "LONG" ELSE "SHORT", Abs(amt),
                           calculate_tp_sl_prices(
                               e, 1000, 500,
                               IF amt > 0 THEN "LONG" ELSE "SHORT", l))}
    /\ markPrice \in MarkPrices
    /\ trailing_levels \in Ladders
    /\ pc = "idle"
    /\ guard = NoGuard
    /\ last = NoCall
    /\ reached = 0
    /\ calls = 0
    /\ calc = NoCalc
    /\ balance = AvailableBalance
    /\ tasks = <<>>
    /\ books = <<>>
    /\ rows = <<>>

\* The trailing-stop engine and the stop-loss guard, against an exchange
\* that may fail any request.
Next ==
    \/ MarkPriceMove
    \/ UpdateDynamicStopLoss(AllOutcomes, FALSE)
    \/ CheckAndCreateStopLoss(AllOutcomes)

Spec == Init /\ [][Next]_vars

\* The same against an exchange that accepts every request, each call
\* followed over the calls before it.
NextAccept ==
    \/ MarkPriceMove
    \/ UpdateDynamicStopLoss({"ok"}, TRUE)
    \/ CheckAndCreateStopLoss({"ok"})

SpecAccept == Init /\ [][NextAccept]_vars

\* check_and_create_stop_loss with its while loop taken pass by pass.
NextGuard ==
    \/ MarkPriceMove
    \/ StopLossStart(AllOutcomes)
    \/ StopLossAttempt(AllOutcomes)
    \/ StopLossExhausted

SpecGuard == Init /\ [][NextGuard]_vars

\* The order manager reads no ladder.
InitOrders == Init /\ trailing_levels = <<>>

\* The order manager, against an exchange that may fail any request.
NextOrders ==
    \/ CreateOrder(AllOutcomes, FALSE)
    \/ CloseAllPositions(AllOutcomes, FALSE)
    \/ CancelAllOpenOrders(AllOutcomes)

SpecOrders == InitOrders /\ [][NextOrders]_vars

\* The same against an exchange that accepts every request, every request
\* recorded.
NextOrdersAccept ==
    \/ MarkPriceMove
    \/ CreateOrder({"ok"}, TRUE)
    \/ CloseAllPositions({"ok"}, TRUE)
    \/ CancelAllOpenOrders({"ok"})

SpecOrdersAccept == InitOrders /\ [][NextOrdersAccept]_vars

\* create_order and close_all_positions against an exchange that may
\* reject any request, every request recorded.
NextOrdersFull ==
    \/ CreateOrder({"ok", "api"}, TRUE)
    \/ CloseAllPositions({"ok", "api"}, TRUE)

SpecOrdersFull == InitOrders /\ [][NextOrdersFull]_vars

\* The price arithmetic on its own: calls of calculate_tp_sl_prices and of
\* the sizing of create_order over the arguments above, the account flat.
InitPrices ==
    /\ Init
    /\ position.amt = 0
    /\ markPrice = Min(MarkPrices)
    /\ trailing_levels = <<>>

NextPrices ==
    \/ CalculateTpSlPrices
    \/ SizeOrders

SpecPrices == InitPrices /\ [][NextPrices]_vars

\* The sizing of create_order while the ticker moves.
NextTicker == SizeAcrossTicks

SpecTicker == InitPrices /\ [][NextTicker]_vars

\* create_order running on two symbols of one account at once, LONG or
\* SHORT with leverage 10 on each, their requests in any order.
InitSymbols ==
    /\ position = [amt |-> 0, entry |-> 0, lev |-> 10]
    /\ openOrders = <<>>
    /\ markPrice = Min(MarkPrices)
    /\ trailing_levels = <<>>
    /\ pc = "idle"
    /\ guard = NoGuard
    /\ last = NoCall
    /\ reached = 0
    /\ calls = 0
    /\ calc = NoCalc
    /\ balance = AvailableBalance
    /\ tasks \in [Symbols -> {TaskStart(t, 10) : t \in {"LONG", "SHORT"}}]
    /\ books = [s \in Symbols |-> <<RestingOrder(s)>>]
    /\ rows = <<>>

NextSymbols ==
    \/ \E s \in Symbols : TaskCancelAll(s)
    \/ \E s \in Symbols : TaskCloseAll(s)
    \/ \E s \in Symbols : TaskReadBalance(s)
    \/ \E s \in Symbols : TaskSize(s)
    \/ \E s \in Symbols : TaskPlace(s)

SpecSymbols == InitSymbols /\ [][NextSymbols]_vars

\* The trailing-stop engine against an exchange that accepts every
\* request, in a process that may end in the middle of a call and then
\* runs the call again.
NextRestart ==
    \/ MarkPriceMove
    \/ UpdateDynamicStopLoss({"ok"}, TRUE)
    \/ UpdateInterrupted({"ok"})

SpecRestart == Init /\ [][NextRestart]_vars

\* The trailing-stop engine on a position entered at 100.000 with leverage
\* 10: mark prices at ROI -3.2 %, -1 %, 2 %, 3.2 % and 5.5 % for a long
\* (the opposite for a short), ladders of one and of two levels, an exchange
\* that accepts every request.
ScenarioEntry == 100000
ScenarioMarks == {99680, 99900, 100200, 100320, 100550}
ScenarioLadders ==
    { << <<300, 150>> >>, << <<300, 152>> >>,
      << <<300, 150>>, <<500, 300>> >> }

InitScenario ==
    /\ \E amt \in {500, -500} :
        /\ position = [amt |-> amt, entry |-> ScenarioEntry, lev |-> 10]
        /\ openOrders \in
             {<<>>,
              Bracket(IF amt > 0 THEN "LONG" ELSE "SHORT", Abs(amt),
                      calculate_tp_sl_prices(
                          ScenarioEntry, 1000, 500,
                          IF amt > 0 THEN "LONG" ELSE "SHORT", 10))}
    /\ markPrice \in ScenarioMarks
    /\ trailing_levels \in ScenarioLadders
    /\ pc = "idle"
    /\ guard = NoGuard
    /\ last = NoCall
    /\ reached = 0
    /\ calls = 0
    /\ calc = NoCalc
    /\ balance = AvailableBalance
    /\ tasks = <<>>
    /\ books = <<>>
    /\ rows = <<>>

\* The mark price moves among the scenario's prices, between two calls.
ScenarioMarkMove ==
    /\ pc = "idle"
    /\ \E m \in ScenarioMarks \ {markPrice} : markPrice' = m
    /\ last' = NoCall
    /\ UNCHANGED <<position, openOrders, trailing_levels, pc, guard, reached, calls, others>>

NextScenario ==
    \/ ScenarioMarkMove
    \/ UpdateDynamicStopLoss({"ok"}, FALSE)

SpecScenario == InitScenario /\ [][NextScenario]_vars

\* close_all_positions on an account of several rows, against an
\* exchange that may fail any request.
InitClose ==
    /\ position = [amt |-> 0, entry |-> 0, lev |-> 10]
    /\ openOrders = <<>>
    /\ markPrice = Min(MarkPrices)
    /\ trailing_levels = <<>>
    /\ pc = "idle"
    /\ guard = NoGuard
    /\ last = NoCall
    /\ reached = 0
    /\ calls = 0
    /\ calc = NoCalc
    /\ balance = AvailableBalance
    /\ tasks = <<>>
    /\ books = <<>>
    /\ rows \in RowLists

NextClose == CloseAllRows({"ok", "api", "err"})

SpecClose == InitClose /\ [][NextClose]_vars

\* A call that has started runs on: the loop's next pass is taken.
SpecGuardFair ==
    /\ SpecGuard
    /\ WF_vars(StopLossAttempt(AllOutcomes))
    /\ WF_vars(StopLossExhausted)

\* ------------------------------------------------------------ claims ----

IsUpdate == last.op = "update_dynamic_stop_loss"
IsGuard  == last.op = "check_and_create_stop_loss"
IsCreate == last.op = "create_order"

\* The price of the first stop order of a book (0: none).
StopPriceOf(orders) ==
    IF CurrentStopIndex(orders) = 0 THEN 0
    ELSE orders[CurrentStopIndex(orders)].price

\* C1: for an open position, across update_dynamic_stop_loss calls under
\* arbitrary mark-price moves and exchange answers, the price of the stop
\* in force never moves in the unfavourable direction compared with the one
\* in force before the call: never down for a long, never up for a short.
C1_StopNeverLoosens ==
    (IsUpdate /\ StopPriceOf(last.pre) # 0 /\ StopPriceOf(openOrders) # 0)
    => /\ position.amt > 0 => StopPriceOf(openOrders) >= StopPriceOf(last.pre)
       /\ position.amt < 0 => StopPriceOf(openOrders) <= StopPriceOf(last.pre)

\* The locked percent of the ladder's level with the given trigger.
LockOf(levels, trigger) ==
    levels[CHOOSE i \in 1..Len(levels) : levels[i][1] = trigger][2]

\* C2: with an exchange that accepts every request, once any call has
\* selected a level the stop in force is the one computed from the highest
\* level selected so far; a later call at a lower profit neither moves it
\* back nor removes it.
C2_StopFollowsHighestLevel ==
    reached > 0
    => /\ StopPriceOf(openOrders) # 0
       /\ StopPriceOf(openOrders) =
            LeveragedStopPrice(position.entry,
                               LockOf(trailing_levels, reached), position.lev,
                               IF position.amt > 0 THEN 1 ELSE -1)

\* C2's case: the level of trigger 5 % was selected, and the last call,
\* at a lower profit, selected the level of trigger 3 % and left the stop.
C2_Witness ==
    /\ reached = 500
    /\ IsUpdate /\ last.level = 300 /\ last.log = <<>>
    /\ StopPriceOf(openOrders) # 0

CeilDiv(a, b) == -((-a) \div b)

\* The percents attempted in the call are start, start + 0.5, ..., each at
\* most the cap.
AttemptsAscend ==
    \A i \in 1..Len(last.attempts) :
        /\ last.attempts[i] = last.start + (i - 1) * EscalationStep
        /\ last.attempts[i] <= last.cap

\* C4 as stated: in one check_and_create_stop_loss call the percents
\* attempted are start, start + 0.5, ..., each at most the cap, and the
\* attempts number at most ceil((cap - start) / 0.5) + 1.
C4_AttemptsBoundAsStated ==
    IsGuard
    => /\ AttemptsAscend
       /\ Len(last.attempts)
            <= CeilDiv(last.cap - last.start, EscalationStep) + 1

\* C4, amended: the same, the attempts numbering at most
\* max(0, ceil((cap - start) / 0.5) + 1): a call whose start exceeds the
\* cap by more than one step makes no attempt, and the stated bound is
\* negative.
C4_AttemptsBound ==
    IsGuard
    => /\ AttemptsAscend
       /\ Len(last.attempts)
            <= Max({0, CeilDiv(last.cap - last.start, EscalationStep) + 1})

\* C4's case: a call starting one step below the cap made the two attempts
\* the bound allows.
C4_Witness ==
    /\ IsGuard /\ last.start = 1450 /\ last.cap = DefaultCapPercent
    /\ last.attempts = <<1450, 1500>>

\* C5: check_and_create_stop_loss always terminates: every rejection
\* "would immediately trigger" raises stop_loss_percent by one step, a call
\* inside its loop leaves it, and a loop ended by its condition (every
\* attempt so rejected) ends above the cap, with no order placed and no
\* exception raised.
C5_GuardTerminates ==
    /\ [](pc = "sl_loop"
          => guard.percent
               = last.start + Len(last.attempts) * EscalationStep)
    /\ [](last.exhausted
          => /\ last.percent > last.cap
             /\ AcceptedIn(last.log) = 0
             /\ openOrders = last.pre
             /\ ~last.raised)
    /\ (pc = "sl_loop" ~> pc = "idle")

\* C5's case: with the default arguments every attempt from 0.01 % to
\* 14.51 % was rejected and the loop ended at 15.01 %.
C5_Witness ==
    /\ IsGuard /\ last.exhausted /\ pc = "idle"
    /\ last.start = DefaultStartPercent
    /\ Len(last.attempts) = 30
    /\ last.percent = 1501
    /\ \A i \in 1..Len(last.log) : last.log[i].res = "trigger"

\* The orders of the bracket the exchange accepted in a log.
BracketAccepted(log) ==
    Cardinality({i \in 1..Len(log) :
                    /\ log[i].req = "create_order" /\ log[i].res = "ok"
                    /\ log[i].order.type
                         \in {"LIMIT", "TAKE_PROFIT_MARKET", "STOP_MARKET"}})

\* C6: when create_order returns, the exchange has accepted all three
\* orders of the bracket (entry, take profit, stop loss) or none of them.
C6_BracketAtomic ==
    IsCreate => BracketAccepted(last.log) \in {0, 3}

\* C7: create_order, close_all_positions and cancel_all_open_orders never
\* raise to the caller, whatever error a request produces.
C7_OrderManagerNeverRaises ==
    last.op \in {"create_order", "close_all_positions",
                 "cancel_all_open_orders"}
    => ~last.raised

\* C7's case: create_order returned after an error that is no
\* BinanceAPIException.
C7_Witness ==
    /\ IsCreate /\ ~last.raised
    /\ \E i \in 1..Len(last.log) :
          last.log[i].req = "create_order" /\ last.log[i].res = "err"

\* The placement of the new trailing stop (reduceOnly) failed.
TrailingPlacementFailed(log) ==
    \E i \in 1..Len(log) :
        /\ log[i].req = "create_order" /\ log[i].order.reduceOnly
        /\ log[i].res # "ok"

\* C8: when the placement of the new trailing stop fails,
\* update_dynamic_stop_loss calls check_and_create_stop_loss before it
\* returns, and whatever fails, no exception leaves it.
C8_FallbackOnPlacementFailure ==
    IsUpdate
    => /\ ~last.raised
       /\ TrailingPlacementFailed(last.log) => last.fallback

\* C8's case: the placement failed and the fallback placed a stop.
C8_Witness ==
    /\ IsUpdate /\ TrailingPlacementFailed(last.log) /\ last.fallback
    /\ ~last.raised
    /\ last.log[Len(last.log)].res = "ok"
    /\ ~last.log[Len(last.log)].order.reduceOnly

ReqNames(log) == [i \in 1..Len(log) |-> log[i].req]

\* The requests of a create_order run: with and without a position to
\* close.
CreateSequence(closing) ==
    <<"cancel_all", "position_information">>
    \o (IF closing THEN <<"create_order">> ELSE <<>>)
    \o <<"sleep", "futures_account", "change_leverage", "ticker", "ticker",
         "create_order", "create_order", "create_order">>

StopMarketOpen(orders) ==
    "STOP_MARKET" \in {orders[i].type : i \in 1..Len(orders)}

\* C10: check_and_create_stop_loss never cancels or replaces an order, and
\* does nothing when the position is flat or a STOP_MARKET order is open.
C10_GuardNoOp ==
    IsGuard
    => /\ CancelsIn(last.log) = 0
       /\ Len(openOrders) >= Len(last.pre)
       /\ SubSeq(openOrders, 1, Len(last.pre)) = last.pre
       /\ (position.amt = 0 \/ StopMarketOpen(last.pre))
          => (last.log = <<>> /\ openOrders = last.pre)

\* C10's case: the call found a position and its STOP_MARKET order.
C10_Witness ==
    /\ IsGuard /\ position.amt # 0 /\ StopMarketOpen(last.pre)
    /\ last.log = <<>> /\ openOrders = last.pre

IsTpSl   == calc.fn = "calculate_tp_sl_prices"
IsSizing == calc.fn = "create_order"

\* C11: for every entry price, also one of 3 decimals, non-negative
\* percents and a leverage of at least 1, the prices calculate_tp_sl_prices
\* returns are ordered around the entry: take profit >= entry >= stop loss
\* for LONG, take profit <= entry <= stop loss for SHORT.
C11_TpSlOrdered ==
    (IsTpSl /\ calc.lev >= 1)
    => /\ calc.ptype = "LONG"
          => (calc.out[1] >= calc.entry /\ calc.entry >= calc.out[2])
       /\ calc.ptype = "SHORT"
          => (calc.out[1] <= calc.entry /\ calc.entry <= calc.out[2])

\* price is within half a cent of entry * (1 + sign * percent / 100 /
\* leverage), for an entry of at most 100.
NearFormula(price, entry, percent, leverage, sign) ==
    entry <= 100000
    => 2 * Abs((price - entry) * 10000 * leverage - sign * entry * percent)
         <= 10 * 10000 * leverage

\* C12: create_order sizes its three orders as quantity = floor to 3
\* decimals of 0.95 * availableBalance * leverage / price, take profit =
\* entry * (1 +- tp_percent / 100 / leverage) and stop loss = entry * (1 -+
\* sl_percent / 100 / leverage), to the cent; with LONG, 10 %, 5 %, leverage
\* 8, price 50000 and balance 1000 they are 0.152, 50625.0 and 49687.5.
C12_BracketSizing ==
    (IsSizing /\ calc.lev >= 1)
    => LET up == IF calc.ptype = "LONG" THEN 1 ELSE -1
       IN  /\ Len(calc.out) = 3
           /\ \A i \in 1..3 :
                 calc.out[i].qty
                   = LongDivide(calc.bal * BalancePercent * calc.lev,
                                calc.entry, 1)[1]
           /\ NearFormula(calc.out[2].price, calc.out[1].price, calc.tp,
                          calc.lev, up)
           /\ NearFormula(calc.out[3].price, calc.out[1].price, calc.sl,
                          calc.lev, -up)
           /\ (calc.bal = 1000000 /\ calc.entry = 50000000 /\ calc.lev = 8
               /\ calc.ptype = "LONG")
              => /\ calc.out[1].qty = 152
                 /\ calc.out[2].price = 50625000
                 /\ calc.out[3].price = 49687500

\* C14: calculate_tp_sl_prices with a leverage of zero or below fails and
\* returns no prices, and create_order with such a leverage goes on to
\* submit no entry, take-profit or stop-loss order.
C14_NonPositiveLeverageFails ==
    ((IsTpSl \/ IsSizing) /\ calc.lev <= 0)
    => /\ calc.out = <<>>
       /\ IsTpSl => calc.raised # "none"

Submitted(s) ==
    LET placed == SelectSeq(tasks[s].log, LAMBDA e : e.req = "create_order")
    IN  [i \in 1..Len(placed) |-> placed[i].order]

\* The orders the two calls submit when the call on `first` runs to its
\* end before the call on `second` starts.
SerialOrders(first, second) ==
    LET o1 == CreateOrdersWith(AvailableBalance, TickerOf(first),
                               tasks[first].ptype, 1000, 500,
                               tasks[first].lev)
        b1 == AvailableBalance - Margin(o1[1], tasks[first].lev)
        o2 == CreateOrdersWith(b1, TickerOf(second), tasks[second].ptype,
                               1000, 500, tasks[second].lev)
    IN  [s \in Symbols |-> IF s = first THEN o1 ELSE o2]

\* C16: create_order calls on two different symbols, their requests in any
\* order, are independent: every request of a call names the call's own
\* symbol, and the orders the two calls submit (side, quantity, prices) are
\* those of one of the two serial executions on the shared balance.
C16_SymbolsIndependent ==
    /\ \A s \in Symbols : \A i \in 1..Len(tasks[s].log) :
          tasks[s].log[i].sym = s
    /\ (\A s \in Symbols : tasks[s].pc = "done")
       => \E first \in Symbols : \E second \in Symbols \ {first} :
             \A s \in Symbols :
                Submitted(s) = SerialOrders(first, second)[s]

\* The triggers of the ladder that the profit of the last call reaches.
ReachedTriggers ==
    {trailing_levels[i][1] : i \in
        {j \in 1..Len(trailing_levels) :
            /\ last.roi > 0
            /\ last.roi >= trailing_levels[j][1] * position.entry}}

\* The last call found the position at or below its entry price.
Underwater ==
    \/ position.amt > 0 /\ markPrice <= position.entry
    \/ position.amt < 0 /\ markPrice >= position.entry

C18_NoLevelNoOp ==
    (IsUpdate /\ last.roi > 0 /\ ReachedTriggers = {})
    => /\ last.log = <<>>
       /\ ~last.fallback
       /\ openOrders = last.pre

\* The placements of a trailing stop (reduceOnly) among the requests.
TrailingPlacements(log) ==
    {i \in 1..Len(log) :
        log[i].req = "create_order" /\ log[i].order.reduceOnly}

LessFavourable ==
    /\ last.level > 0 /\ last.stop > 0
    /\ StopIndexes(last.pre) # {}
    /\ \/ position.amt > 0 /\ last.stop < StopPriceOf(last.pre)
       \/ position.amt < 0 /\ last.stop > StopPriceOf(last.pre)

\* C20: a call of update_dynamic_stop_loss that finds a stop order and
\* computes a less favourable stop makes neither a cancel nor a placement.
C20_NoLoosening ==
    (IsUpdate /\ LessFavourable)
    => /\ last.log = <<>>
       /\ ~last.fallback
       /\ openOrders = last.pre

\* C20's case: a short whose stop stands at the level of trigger 5 %, and
\* a call at the level of trigger 3 %.
C20_Witness ==
    /\ IsUpdate /\ LessFavourable /\ position.amt < 0
    /\ last.level = 300 /\ last.log = <<>> /\ openOrders = last.pre

\* The placements of the last call the exchange answered with a failure
\* other than "Order would immediately trigger".
AbortingFailures ==
    {i \in 1..Len(last.log) :
        last.log[i].req = "create_order"
        /\ last.log[i].res \notin {"ok", "trigger"}}

\* C21: in check_and_create_stop_loss a placement that fails otherwise
\* than with "Order would immediately trigger" is the last of the call:
\* the loop is left, and stop_loss_percent stays at the percent of that
\* attempt; an error before the request (a leverage of 0) leaves the
\* percent at its start, no request made.
C21_OtherFailureAborts ==
    IsGuard
    => /\ \A i \in AbortingFailures :
            /\ i = Len(last.log)
            /\ pc = "idle"
            /\ last.percent = last.attempts[i]
       /\ last.lev = 0 => (last.log = <<>> /\ last.percent = last.start)

\* C21's case: a rejection for the price, then another error of the
\* exchange, one step further and no more.
C21_Witness ==
    /\ IsGuard /\ Len(last.log) = 2 /\ pc = "idle"
    /\ last.log[1].res = "trigger" /\ last.log[2].res = "api"
    /\ last.percent = last.start + EscalationStep
    /\ StopIndexes(openOrders) = {}

\* The stop price of the i-th placement of the last
\* check_and_create_stop_loss call is at most the value of the formula at
\* the percent attempted and less than 0.01 below it.
GuardPriceRoundedDown(i) ==
    LET d     == 10000 * last.lev
        sign  == IF position.amt > 0 THEN -1 ELSE 1
        exact == position.entry * (d + sign * last.attempts[i])
        price == last.log[i].order.price
    IN  /\ price % 10 = 0
        /\ price * d <= exact
        /\ exact < (price + 10) * d

\* C22: every stop price check_and_create_stop_loss submits is the value
\* of the leveraged formula rounded down to 2 decimals: the largest
\* multiple of 0.01 at most the unrounded value.
C22_StopRoundedDown ==
    (IsGuard /\ last.lev > 0)
    => \A i \in 1..Len(last.log) : GuardPriceRoundedDown(i)

\* The closing orders of one pass over the rows for a symbol: one MARKET
\* order for each of its rows that is not flat, SELL for a long and BUY
\* for a short, of the row's size.
RECURSIVE ExpectedCloses(_, _)
ExpectedCloses(rws, symbol) ==
    IF rws = <<>> THEN <<>>
    ELSE (IF Head(rws).sym = symbol /\ Head(rws).amt # 0
          THEN <<[side |-> IF Head(rws).amt > 0 THEN "SELL" ELSE "BUY",
                  qty  |-> Abs(Head(rws).amt)]>>
          ELSE <<>>)
         \o ExpectedCloses(Tail(rws), symbol)

\* The orders the last call submitted, after its read of the rows.
ClosesOf(log) ==
    [i \in 1..(Len(log) - 1) |->
        [side |-> log[i + 1].order.side, qty |-> log[i + 1].order.qty]]

IsCloseRows ==
    /\ last.op = "close_all_positions"
    /\ last.log # <<>> /\ last.log[1].res = "ok"

\* C23: close_all_positions, once it has read the rows, submits one
\* MARKET order for every row of the symbol that is not flat (SELL of the
\* size for a long, BUY for a short), in one pass, and none for a flat
\* row or a row of another symbol, also when the close of an earlier row
\* is rejected.
C23_ClosesEveryRow ==
    IsCloseRows
    => /\ \A i \in 2..Len(last.log) :
            last.log[i].order.type = "MARKET"
            /\ last.log[i].sym = last.log[1].sym
       /\ ClosesOf(last.log) = ExpectedCloses(last.pre, last.log[1].sym)

\* C24: after any calls of update_dynamic_stop_loss and
\* check_and_create_stop_loss, whatever the exchange answers, at most one
\* order of type STOP_MARKET or STOP is open.
C24_AtMostOneStop ==
    Cardinality(StopIndexes(openOrders)) <= 1

\* C26: a position that has a stop order open when
\* update_dynamic_stop_loss is called has one open when the call returns,
\* whatever the exchange answers to the cancel, to the placement and to
\* the requests of check_and_create_stop_loss.
C26_StillProtected ==
    (IsUpdate /\ position.amt # 0 /\ StopIndexes(last.pre) # {})
    => StopIndexes(openOrders) # {}

\* C27: every STOP_MARKET order update_dynamic_stop_loss and
\* check_and_create_stop_loss submit, the latter also when it runs as the
\* fallback of the former, is reduceOnly.
C27_StopsReduceOnly ==
    (IsUpdate \/ IsGuard)
    => \A i \in 1..Len(last.log) :
          (last.log[i].req = "create_order"
           /\ last.log[i].order.type = "STOP_MARKET")
          => last.log[i].order.reduceOnly

\* The placements check_and_create_stop_loss made in the last call: its
\* orders carry no reduceOnly.
GuardPlacements(log) ==
    {i \in 1..Len(log) :
        log[i].req = "create_order" /\ ~log[i].order.reduceOnly}

\* The percents check_and_create_stop_loss attempts from its default
\* start to its default cap.
DefaultPercents ==
    {DefaultStartPercent + k * EscalationStep :
        k \in 0..(DefaultCapPercent \div EscalationStep)}

\* C29: when check_and_create_stop_loss runs as the fallback of
\* update_dynamic_stop_loss, the stop prices it submits are computed with
\* the leverage of the position, the one the trailing stop price of that
\* call is computed with.
C29_FallbackLeverage ==
    (IsUpdate /\ last.fallback /\ GuardPlacements(last.log) # {})
    => /\ last.lev = position.lev
       /\ \A i \in GuardPlacements(last.log) :
            \E p \in DefaultPercents :
                last.log[i].order.price =
                    LeveragedStopPrice(position.entry, p, position.lev,
                                       IF position.amt > 0 THEN -1 ELSE 1)

\* The entry, take-profit and stop-loss placements among the requests.
BracketPlacements(log) ==
    {i \in 1..Len(log) :
        log[i].req = "create_order"
        /\ log[i].order.type \in {"LIMIT", "TAKE_PROFIT_MARKET", "STOP_MARKET"}}

\* The requests of steps 5 to 8 of create_order: the balance, the leverage
\* and the two ticker reads.
SizingRequests(log) ==
    {i \in 1..Len(log) :
        log[i].req \in {"futures_account", "change_leverage", "ticker"}}

EntrySubmitted ==
    \E i \in 1..Len(last.log) :
        last.log[i].req = "create_order" /\ last.log[i].order.type = "LIMIT"

\* The requests of the last call that clear the symbol: the cancel-all,
\* the read of the position and the market close.
CleanupRequests ==
    {i \in 1..Len(last.log) :
        \/ last.log[i].req \in {"cancel_all", "position_information"}
        \/ last.log[i].req = "create_order"
           /\ last.log[i].order.type = "MARKET"}

\* C28 as stated: create_order submits the entry LIMIT order only when the
\* cancel-all request and every market close of the position were
\* accepted.
C28_EntryOnlyAfterCleanup ==
    (IsCreate /\ EntrySubmitted)
    => \A i \in CleanupRequests : last.log[i].res = "ok"

\* C28: create_order with a valid position_type submits the entry LIMIT
\* order whenever its reads of the balance and of the price and its
\* setting of the leverage succeed, whatever the exchange answered to the
\* cancel-all request and to the market close, which come first.
C28_EntryDespiteFailedCleanup ==
    (IsCreate /\ last.ptype \in {"LONG", "SHORT"})
    => /\ Len(last.log) >= 2
       /\ last.log[1].req = "cancel_all"
       /\ last.log[2].req = "position_information"
       /\ \/ EntrySubmitted
          \/ \E i \in SizingRequests(last.log) : last.log[i].res # "ok"

\* C28's case: the cancel-all and the market close were rejected, and the
\* entry order was submitted and accepted on top of the position.
C28_Witness ==
    /\ IsCreate /\ EntrySubmitted
    /\ last.log[1].res = "api"
    /\ last.log[3].order.type = "MARKET" /\ last.log[3].res = "api"
    /\ position.amt # 0
    /\ \E i \in 1..Len(openOrders) : openOrders[i].type = "LIMIT"

\* C30: the notional of the entry order of create_order, quantity times
\* limit price, is at most 0.95 * availableBalance * leverage, also when
\* the ticker moves between the read that sizes the quantity and the read
\* that gives the limit price.
C30_NotionalWithinBudget ==
    (IsSizing /\ calc.out # <<>>)
    => calc.out[1].qty * calc.out[1].price
         <= calc.bal * BalancePercent * calc.lev * 10

====
